---------------------------- MODULE Spec2Model ----------------------------
(***************************************************************************)
(* A model of PaReD (src/pared.py), a passive reverse DNS lookup tool.     *)
(*                                                                         *)
(* Text is modelled as a sequence of one-character strings, so that the   *)
(* substring tests, splitlines() and sort() of the program are computed   *)
(* and not assumed.  A run of main() is modelled statement group by        *)
(* statement group with a program counter pc.                              *)
(***************************************************************************)
EXTENDS Integers, Sequences, FiniteSets, TLC

VARIABLES
    pc,             \* position of the run in main() / print_domains()
    mode,           \* which of --ip / --subnet / --file was given
    source,         \* args.source: "hackertarget" or "mnemonic"
    output,         \* TRUE iff args.output is not None
    rua,            \* args.rua
    uaFile,         \* state of user-agents.txt on disk
    input,          \* the value of --ip, --subnet or the lines of --file
    targets,        \* the sequence main() iterates over
    idx,            \* index in targets of the target being processed
    ip,             \* local ip of print_domains after line 148
    ua,             \* the User-Agent returned by get_useragent
    resp,           \* the HTTP response the provider gave for this target
    fqdns,          \* local fqdns of print_domains
    f_output,       \* TRUE iff the handle f_output is open
    opens,          \* how many times open(output, "a") was executed
    file,           \* lines of the output file
    file0,          \* lines of the output file before the run
    rdnsCalls,      \* arguments of socket.gethostbyaddr, in call order
    providerCalls,  \* arguments of from_<source>, in call order
    results,        \* what from_<source> returned, in call order
    errors,         \* messages printed through error()
    traceback,      \* name of the exception that ended the run uncaught
    exitCode        \* exit status, meaningful when pc = "exit"

vars == <<pc, mode, source, output, rua, uaFile, input, targets, idx, ip, ua,
          resp, fqdns, f_output, opens, file, file0, rdnsCalls,
          providerCalls, results, errors, traceback, exitCode>>

-----------------------------------------------------------------------------
(* Bounds of the model *)

\* subnets are drawn from 192.0.2.0/(32-HostBits) and its sub-networks
HostBits == 2
\* most lines in the file given with --file
MaxLines == 3
\* most chunks a hackertarget body is assembled from
MaxChunks == 3
\* most records in the data array of a mnemonic response
MaxData == 2
\* what calendar.timegm(time.gmtime()) returns during the run
Now == 1700000000

(* Constants of the program *)

\* Python's ipaddress: IPv4 max_prefixlen
MaxPrefixLen == 32
\* str(data["lastSeenTimestamp"])[:10]
TsDigits == 10
\* diff_ts
OneYear == 31536000
\* the success code both providers are compared against
HttpOk == 200

-----------------------------------------------------------------------------
(* Text *)

Min(a, b) == IF a < b THEN a ELSE b

\* the characters the model uses, in code point order
AsciiOrder == <<"\n", "\r", " ", ".", "A", "D", "I", "N", "P", "S", "a", "b", "c",
                "d", "e", "f", "m", "n", "o", "r", "s", "t", "u", "x">>

Ord(c) == CHOOSE i \in 1..Len(AsciiOrder) : AsciiOrder[i] = c

\* s < t for Python str: the first differing character decides, a proper
\* prefix is smaller
RECURSIVE StrLess(_, _)
StrLess(s, t) ==
    IF t = <<>> THEN FALSE
    ELSE IF s = <<>> THEN TRUE
    ELSE IF Head(s) = Head(t) THEN StrLess(Tail(s), Tail(t))
    ELSE Ord(Head(s)) < Ord(Head(t))

\* sub in s
Contains(s, sub) ==
    \E i \in 0..(Len(s) - Len(sub)) : SubSeq(s, i + 1, i + Len(sub)) = sub

LineBreaks == {"\n", "\r"}

\* str.splitlines(): lines without their line breaks, "\r\n" is one break,
\* and no empty last line after a final break
RECURSIVE SplitLines(_)
SplitLines(s) ==
    IF s = <<>> THEN <<>>
    ELSE IF \A k \in 1..Len(s) : s[k] \notin LineBreaks THEN <<s>>
    ELSE LET k == CHOOSE j \in 1..Len(s) :
                      /\ s[j] \in LineBreaks
                      /\ \A h \in 1..(j - 1) : s[h] \notin LineBreaks
             brk == IF s[k] = "\r" /\ k < Len(s) /\ s[k + 1] = "\n"
                    THEN k + 1 ELSE k
         IN <<SubSeq(s, 1, k - 1)>> \o SplitLines(SubSeq(s, brk + 1, Len(s)))

\* list.sort() on a list of str: insertion sort, stable and ascending
RECURSIVE Insert(_, _)
Insert(x, l) ==
    IF l = <<>> THEN <<x>>
    ELSE IF StrLess(x, Head(l)) THEN <<x>> \o l
    ELSE <<Head(l)>> \o Insert(x, Tail(l))

RECURSIVE SortWith(_, _)
SortWith(l, acc) ==
    IF l = <<>> THEN acc ELSE SortWith(Tail(l), Insert(Head(l), acc))

Sort(l) == SortWith(l, <<>>)

-----------------------------------------------------------------------------
(* HackerTarget adapter, src/pared.py 58-76 *)

QuotaMarker ==
    <<"A", "P", "I", " ", "c", "o", "u", "n", "t", " ",
      "e", "x", "c", "e", "e", "d", "e", "d">>

NoRecordsMarker ==
    <<"N", "o", " ", "D", "N", "S", " ", "A", " ",
      "r", "e", "c", "o", "r", "d", "s", " ", "f", "o", "u", "n", "d">>

ErrHttp == "Server responded with HTTP code"
ErrQuota == "API count exceeded."
ErrIp == "IP address is not valid."
ErrSubnet == "Invalid subnet."

\* what a call leaves behind: it returns fqdns, or it ends the process with
\* sys.exit(1) after error(err), or it raises exc
Return(l) == [kind |-> "return", fqdns |-> l, err |-> "", exc |-> ""]
Exit(msg) == [kind |-> "exit", fqdns |-> <<>>, err |-> msg, exc |-> ""]
Raise(e)  == [kind |-> "raise", fqdns |-> <<>>, err |-> "", exc |-> e]

\* from_hackertarget with the quota marker taken for an empty result
from_hackertarget_QuotaAsEmpty(r) ==
    IF r.status # HttpOk THEN Exit(ErrHttp)
    ELSE IF Contains(r.text, QuotaMarker) THEN Return(<<>>)
    ELSE IF ~Contains(r.text, NoRecordsMarker) THEN Return(SplitLines(r.text))
    ELSE Return(<<>>)

\* from_hackertarget with the two marker tests in the other order
from_hackertarget_MarkersSwapped(r) ==
    IF r.status # HttpOk THEN Exit(ErrHttp)
    ELSE IF Contains(r.text, NoRecordsMarker) THEN Return(<<>>)
    ELSE IF Contains(r.text, QuotaMarker) THEN Exit(ErrQuota)
    ELSE Return(SplitLines(r.text))

from_hackertarget(r) ==
    IF r.status # HttpOk THEN Exit(ErrHttp)
    ELSE IF Contains(r.text, QuotaMarker) THEN Exit(ErrQuota)
    ELSE IF ~Contains(r.text, NoRecordsMarker) THEN Return(SplitLines(r.text))
    ELSE Return(<<>>)

-----------------------------------------------------------------------------
(* mnemonic adapter, src/pared.py 80-127 *)

\* int(d) for a string of decimal digits
RECURSIVE ToInt(_)
ToInt(d) ==
    IF d = <<>> THEN 0
    ELSE ToInt(SubSeq(d, 1, Len(d) - 1)) * 10 + d[Len(d)]

\* str(n) for n >= 0, as a sequence of digits
RECURSIVE Digits(_)
Digits(n) == IF n < 10 THEN <<n>> ELSE Digits(n \div 10) \o <<n % 10>>

\* int(str(data["lastSeenTimestamp"])[:10])
last_ts(data) ==
    ToInt(SubSeq(data.lastSeenTimestamp, 1,
                 Min(TsDigits, Len(data.lastSeenTimestamp))))

\* IsFresh with <= for <
IsFresh_Inclusive(data, curr_ts) == (curr_ts - last_ts(data)) <= OneYear

\* (curr_ts - last_ts) < diff_ts
IsFresh(data, curr_ts) == (curr_ts - last_ts(data)) < OneYear

\* the loop of lines 119-125
RECURSIVE FreshQueries(_, _)
FreshQueries(data, curr_ts) ==
    IF data = <<>> THEN <<>>
    ELSE (IF IsFresh(Head(data), curr_ts) THEN <<Head(data).query>> ELSE <<>>)
         \o FreshQueries(Tail(data), curr_ts)

from_mnemonic(r, curr_ts) ==
    IF ~r.json THEN Raise("JSONDecodeError")
    ELSE IF r.status # HttpOk \/ r.responseCode # HttpOk THEN Exit(ErrHttp)
    ELSE Return(FreshQueries(r.data, curr_ts))

\* globals()["from_" + source](ip, ua)
Adapter(src, r) ==
    IF src = "hackertarget" THEN from_hackertarget(r)
    ELSE from_mnemonic(r, Now)

-----------------------------------------------------------------------------
(* User-Agent selection, src/pared.py 130-143 *)

DefaultUA == "Mozilla/5.0 (compatible; Googlebot/2.1; +http://www.google.com/bot.html)"

\* states of user-agents.txt: absent, present but open() is refused, present
\* and empty, present with lines
UaFileStates == {"missing", "denied", "empty", "ok"}
UaLines == <<"UA-1", "UA-2">>

\* open(f_rua).read().splitlines(): the lines, or the exception raised
ReadUaFile(f) ==
    CASE f = "missing" -> Raise("FileNotFoundError")
      [] f = "denied"  -> Raise("PermissionError")
      [] f = "empty"   -> Return(<<>>)
      [] OTHER         -> Return(UaLines)

\* the set of outcomes of get_useragent(rnd); random.choice raises IndexError
\* on an empty list, and only FileNotFoundError is caught
get_useragent(rnd, f) ==
    IF rnd
    THEN LET rd == ReadUaFile(f)
         IN IF rd.kind = "raise"
            THEN IF rd.exc = "FileNotFoundError"
                 THEN {[kind |-> "return", ua |-> DefaultUA, exc |-> ""]}
                 ELSE {[kind |-> "raise", ua |-> "", exc |-> rd.exc]}
            ELSE IF rd.fqdns = <<>>
                 THEN {[kind |-> "raise", ua |-> "", exc |-> "IndexError"]}
                 ELSE {[kind |-> "return", ua |-> rd.fqdns[i], exc |-> ""] :
                          i \in 1..Len(rd.fqdns)}
    ELSE {[kind |-> "return", ua |-> DefaultUA, exc |-> ""]}

-----------------------------------------------------------------------------
(* Target enumeration, src/pared.py 209-222 *)

\* str(IPv4Address(192.0.2.0 + n))
HostStr(n) == "192.0.2." \o ToString(n)

RECURSIVE Pow2(_)
Pow2(n) == IF n = 0 THEN 1 ELSE 2 * Pow2(n - 1)

\* ipaddress.ip_address(s) succeeds
IsValidIP(s) == s \in {HostStr(n) : n \in 0..255}

\* str.strip() on the lines the model draws
Strip(line) ==
    CASE line = " 192.0.2.2 " -> "192.0.2.2"
      [] line = "192.0.2.1 "  -> "192.0.2.1"
      [] OTHER                -> line

\* ip_network(subnet, False): the host bits of the address are masked
NetworkAddress(net) ==
    net.addr - (net.addr % Pow2(MaxPrefixLen - net.prefix))

BroadcastAddress(net) ==
    NetworkAddress(net) + Pow2(MaxPrefixLen - net.prefix) - 1

\* the addresses n with lo <= n <= hi, ascending
RECURSIVE Range(_, _)
Range(lo, hi) == IF lo > hi THEN <<>> ELSE <<lo>> \o Range(lo + 1, hi)

\* Hosts that iterates the whole network
Hosts_WholeNetwork(net) == Range(NetworkAddress(net), BroadcastAddress(net))

\* list(ip_network(subnet, False).hosts()), as offsets from 192.0.2.0:
\* a /32 is its one address, a /31 both of its addresses, any other network
\* range(network + 1, broadcast)
Hosts(net) ==
    IF net.prefix = MaxPrefixLen THEN <<NetworkAddress(net)>>
    ELSE IF net.prefix = MaxPrefixLen - 1
         THEN <<NetworkAddress(net), BroadcastAddress(net)>>
    ELSE Range(NetworkAddress(net) + 1, BroadcastAddress(net) - 1)

HostTargets(net) == [i \in 1..Len(Hosts(net)) |-> HostStr(Hosts(net)[i])]

\* ipaddress.ip_network(s, False): the network, or ValueError; the factory
\* turns the AddressValueError / NetmaskValueError of the two address
\* families into a plain ValueError
ip_network(s) == IF s.ok THEN Return(<<>>) ELSE Raise("ValueError")

\* the except clauses of lines 215-218
SubnetHandlers == {"AddressValueError", "NetmaskValueError"}

-----------------------------------------------------------------------------
(* Inputs *)

IpArgs == {"192.0.2.1", "not-an-ip", "999.1.1.1"}

BadSubnet == [ok |-> FALSE, addr |-> 0, prefix |-> 0]

\* the first, the second and the last address of 192.0.2.0/(32-HostBits):
\* addresses with and without host bits set
SubnetAddrs == {0, 1, Pow2(HostBits) - 1}

SubnetArgs ==
    {[ok |-> TRUE, addr |-> a, prefix |-> p] :
        a \in SubnetAddrs,
        p \in (MaxPrefixLen - HostBits)..MaxPrefixLen} \cup {BadSubnet}

FileLines == {"192.0.2.1", " 192.0.2.2 ", "", "not-an-ip"}

RECURSIVE SeqsUpTo(_, _)
SeqsUpTo(S, n) ==
    IF n = 0 THEN {<<>>}
    ELSE SeqsUpTo(S, n - 1) \cup
         {Append(q, x) : q \in SeqsUpTo(S, n - 1), x \in S}

DomA == <<"a", ".", "c", "o", "m">>
DomB == <<"b", ".", "c", "o", "m">>
DomC == <<"c", ".", "c", "o", "m">>

\* the pieces hackertarget bodies are assembled from
Chunks == {DomA, DomB, <<"\n">>, <<"\r">>, DomA \o <<"\n">>, DomC \o <<"\n">>,
           QuotaMarker, NoRecordsMarker}

RECURSIVE Bodies(_)
Bodies(n) ==
    IF n = 0 THEN {<<>>}
    ELSE Bodies(n - 1) \cup {b \o c : b \in Bodies(n - 1), c \in Chunks}

Statuses == {HttpOk, 404, 500}

HtResponses == [status : Statuses, text : Bodies(MaxChunks)]

\* lastSeenTimestamp values: around the one-year boundary, the two values of
\* the documentation, now, the future, the same in milliseconds, a short one
SecondsSamples == {Now - OneYear + 1, Now - OneYear, Now - OneYear - 1,
                   1690000000, 1600000000, Now, Now + 60}

Timestamps ==
    {Digits(s) : s \in SecondsSamples}
    \cup {Digits(s) \o <<9, 9, 9>> : s \in {Now - OneYear + 1, Now - OneYear}}
    \cup {<<9, 9, 9>>}

MnRecords == [query : {DomA, DomB}, lastSeenTimestamp : Timestamps]

NoJson == [status |-> 500, json |-> FALSE, responseCode |-> 0, data |-> <<>>]

MnResponses ==
    [status : {HttpOk, 500}, json : {TRUE}, responseCode : {HttpOk, 404},
     data : SeqsUpTo(MnRecords, MaxData)] \cup {NoJson}

\* the responses a provider gives during a run of main()
Fresh(q) == [query |-> q, lastSeenTimestamp |-> Digits(Now - 60)]
Stale(q) == [query |-> q, lastSeenTimestamp |-> Digits(Now - OneYear)]
MnOk(d) == [status |-> HttpOk, json |-> TRUE, responseCode |-> HttpOk, data |-> d]

RunResponses(src) ==
    IF src = "hackertarget"
    THEN {[status |-> HttpOk, text |-> DomB \o <<"\n">> \o DomA],
          [status |-> HttpOk, text |-> DomA \o <<"\n", "\n">> \o DomA],
          [status |-> HttpOk, text |-> NoRecordsMarker],
          [status |-> HttpOk, text |-> QuotaMarker],
          [status |-> 500, text |-> <<>>]}
    ELSE {MnOk(<<Fresh(DomB), Fresh(DomA), Stale(DomC)>>),
          MnOk(<<Fresh(DomA), Fresh(DomA)>>),
          MnOk(<<Stale(DomA)>>),
          [status |-> HttpOk, json |-> TRUE, responseCode |-> 404, data |-> <<>>],
          NoJson}

OldLines == <<<<"o", "d", ".", "c", "o", "m">>>>

-----------------------------------------------------------------------------
(* A run of main() *)

Init ==
    /\ pc = "start"
    /\ mode \in {"ip", "subnet", "file"}
    /\ source \in {"hackertarget", "mnemonic"}
    /\ output \in BOOLEAN
    /\ rua \in BOOLEAN
    /\ uaFile \in IF rua THEN UaFileStates ELSE {"ok"}
    /\ input \in CASE mode = "ip" -> IpArgs
                   [] mode = "subnet" -> SubnetArgs
                   [] OTHER -> SeqsUpTo(FileLines, MaxLines)
    /\ targets = <<>>
    /\ idx = 0
    /\ ip = ""
    /\ ua = ""
    /\ resp = <<>>
    /\ fqdns = <<>>
    /\ f_output = FALSE
    /\ opens = 0
    /\ file0 \in IF output THEN {<<>>, OldLines} ELSE {<<>>}
    /\ file = file0
    /\ rdnsCalls = <<>>
    /\ providerCalls = <<>>
    /\ results = <<>>
    /\ errors = <<>>
    /\ traceback = ""
    /\ exitCode = 0

\* sys.exit(code), or the return of main() with code 0
Terminate(code) ==
    /\ pc' = "exit"
    /\ exitCode' = code

\* an exception nobody catches: the interpreter prints the traceback and
\* exits with status 1
Uncaught(exc) ==
    /\ traceback' = exc
    /\ Terminate(1)

\* line 204
SelectUA ==
    /\ pc = "start"
    /\ \E o \in get_useragent(rua, uaFile) :
          IF o.kind = "return"
          THEN /\ ua' = o.ua
               /\ pc' = "main"
               /\ UNCHANGED <<traceback, exitCode>>
          ELSE /\ Uncaught(o.exc)
               /\ UNCHANGED ua
    /\ UNCHANGED <<mode, source, output, rua, uaFile, input, targets, idx, ip,
                   resp, fqdns, f_output, opens, file, file0, rdnsCalls,
                   providerCalls, results, errors>>

\* the loop heads of lines 209-222: the first target, or the end of main()
Begin(ts) ==
    /\ targets' = ts
    /\ IF ts = <<>>
       THEN /\ Terminate(0)
            /\ UNCHANGED idx
       ELSE /\ idx' = 1
            /\ pc' = "validate"
            /\ UNCHANGED exitCode

Enumerate ==
    /\ pc = "main"
    /\ CASE mode = "ip" ->
              /\ Begin(<<input>>)
              /\ UNCHANGED <<errors, traceback>>
         [] mode = "subnet" ->
              LET n == ip_network(input)
              IN IF n.kind = "return"
                 THEN /\ Begin(HostTargets(input))
                      /\ UNCHANGED <<errors, traceback>>
                 ELSE IF n.exc \in SubnetHandlers
                 THEN /\ errors' = Append(errors, ErrSubnet)
                      /\ Terminate(0)
                      /\ UNCHANGED <<targets, idx, traceback>>
                 ELSE /\ Uncaught(n.exc)
                      /\ UNCHANGED <<targets, idx, errors>>
         [] OTHER ->
              /\ Begin(input)
              /\ UNCHANGED <<errors, traceback>>
    /\ UNCHANGED <<mode, source, output, rua, uaFile, input, ip, ua, resp,
                   fqdns, f_output, opens, file, file0, rdnsCalls,
                   providerCalls, results>>

\* the argument main() passes to print_domains for targets[idx]
TargetArg == IF mode = "file" THEN Strip(targets[idx]) ELSE targets[idx]

\* lines 147-151
Validate ==
    /\ pc = "validate"
    /\ IF IsValidIP(TargetArg)
       THEN /\ ip' = TargetArg
            /\ pc' = "rdns"
            /\ UNCHANGED <<errors, exitCode>>
       ELSE /\ errors' = Append(errors, ErrIp)
            /\ Terminate(1)
            /\ UNCHANGED ip
    /\ UNCHANGED <<mode, source, output, rua, uaFile, input, targets, idx, ua,
                   resp, fqdns, f_output, opens, file, file0, rdnsCalls,
                   providerCalls, results, traceback>>

\* lines 153-161
RevDns ==
    /\ pc = "rdns"
    /\ rdnsCalls' = Append(rdnsCalls, ip)
    /\ pc' = "lookup"
    /\ UNCHANGED <<mode, source, output, rua, uaFile, input, targets, idx, ip,
                   ua, resp, fqdns, f_output, opens, file, file0,
                   providerCalls, results, errors, traceback, exitCode>>

\* lines 163-164
Lookup ==
    /\ pc = "lookup"
    /\ \E r \in RunResponses(source) :
          LET o == Adapter(source, r)
          IN /\ resp' = r
             /\ providerCalls' = Append(providerCalls, ip)
             /\ CASE o.kind = "return" ->
                       /\ fqdns' = o.fqdns
                       /\ results' = Append(results, o.fqdns)
                       /\ pc' = "present"
                       /\ UNCHANGED <<errors, traceback, exitCode>>
                  [] o.kind = "exit" ->
                       /\ errors' = Append(errors, o.err)
                       /\ Terminate(1)
                       /\ UNCHANGED <<fqdns, results, traceback>>
                  [] OTHER ->
                       /\ Uncaught(o.exc)
                       /\ UNCHANGED <<fqdns, results, errors>>
    /\ UNCHANGED <<mode, source, output, rua, uaFile, input, targets, idx, ip,
                   ua, f_output, opens, file, file0, rdnsCalls>>

\* lines 166-171
OpenOutput ==
    /\ pc = "present"
    /\ Len(fqdns) > 0
    /\ f_output' = output
    /\ opens' = IF output THEN opens + 1 ELSE opens
    /\ pc' = "write"
    /\ UNCHANGED <<mode, source, output, rua, uaFile, input, targets, idx, ip,
                   ua, resp, fqdns, file, file0, rdnsCalls, providerCalls,
                   results, errors, traceback, exitCode>>

\* WriteDomains without the sort
WriteDomains_Unsorted ==
    /\ pc = "write"
    /\ file' = IF output THEN file \o fqdns ELSE file
    /\ pc' = "close"
    /\ UNCHANGED <<mode, source, output, rua, uaFile, input, targets, idx, ip,
                   ua, resp, fqdns, f_output, opens, file0, rdnsCalls,
                   providerCalls, results, errors, traceback, exitCode>>

\* lines 173-179
WriteDomains ==
    /\ pc = "write"
    /\ fqdns' = Sort(fqdns)
    /\ file' = IF output THEN file \o Sort(fqdns) ELSE file
    /\ pc' = "close"
    /\ UNCHANGED <<mode, source, output, rua, uaFile, input, targets, idx, ip,
                   ua, resp, f_output, opens, file0, rdnsCalls, providerCalls,
                   results, errors, traceback, exitCode>>

\* the return of print_domains to the loop of main()
NextTarget ==
    IF idx < Len(targets)
    THEN /\ idx' = idx + 1
         /\ pc' = "validate"
         /\ UNCHANGED exitCode
    ELSE /\ Terminate(0)
         /\ UNCHANGED idx

\* CloseOutput without the close()
CloseOutput_LeavesOpen ==
    /\ pc = "close"
    /\ NextTarget
    /\ UNCHANGED <<mode, source, output, rua, uaFile, input, targets, ip, ua,
                   resp, fqdns, f_output, opens, file, file0, rdnsCalls,
                   providerCalls, results, errors, traceback>>

\* lines 181-182 and 186
CloseOutput ==
    /\ pc = "close"
    /\ f_output' = FALSE
    /\ NextTarget
    /\ UNCHANGED <<mode, source, output, rua, uaFile, input, targets, ip, ua,
                   resp, fqdns, opens, file, file0, rdnsCalls, providerCalls,
                   results, errors, traceback>>

\* lines 183-186
NoDomains ==
    /\ pc = "present"
    /\ Len(fqdns) = 0
    /\ NextTarget
    /\ UNCHANGED <<mode, source, output, rua, uaFile, input, targets, ip, ua,
                   resp, fqdns, f_output, opens, file, file0, rdnsCalls,
                   providerCalls, results, errors, traceback>>

Next ==
    \/ SelectUA
    \/ Enumerate
    \/ Validate
    \/ RevDns
    \/ Lookup
    \/ OpenOutput
    \/ WriteDomains
    \/ CloseOutput
    \/ NoDomains

Spec == Init /\ [][Next]_vars

-----------------------------------------------------------------------------
(* One call of a provider adapter on an arbitrary response *)

AdapterInit ==
    /\ pc = "call"
    /\ source \in {"hackertarget", "mnemonic"}
    /\ resp \in IF source = "hackertarget" THEN HtResponses ELSE MnResponses
    /\ mode = "ip"
    /\ output = FALSE
    /\ rua = FALSE
    /\ uaFile = "missing"
    /\ input = "192.0.2.1"
    /\ targets = <<"192.0.2.1">>
    /\ idx = 1
    /\ ip = "192.0.2.1"
    /\ ua = DefaultUA
    /\ fqdns = <<>>
    /\ f_output = FALSE
    /\ opens = 0
    /\ file0 = <<>>
    /\ file = <<>>
    /\ rdnsCalls = <<"192.0.2.1">>
    /\ providerCalls = <<>>
    /\ results = <<>>
    /\ errors = <<>>
    /\ traceback = ""
    /\ exitCode = 0

AdapterCall ==
    /\ pc = "call"
    /\ LET o == Adapter(source, resp)
       IN /\ providerCalls' = Append(providerCalls, ip)
          /\ CASE o.kind = "return" ->
                    /\ fqdns' = o.fqdns
                    /\ results' = Append(results, o.fqdns)
                    /\ pc' = "returned"
                    /\ UNCHANGED <<errors, traceback, exitCode>>
               [] o.kind = "exit" ->
                    /\ errors' = Append(errors, o.err)
                    /\ Terminate(1)
                    /\ UNCHANGED <<fqdns, results, traceback>>
               [] OTHER ->
                    /\ Uncaught(o.exc)
                    /\ UNCHANGED <<fqdns, results, errors>>
    /\ UNCHANGED <<mode, source, output, rua, uaFile, input, targets, idx, ip,
                   ua, resp, f_output, opens, file, file0, rdnsCalls>>

AdapterNext == AdapterCall

AdapterSpec == AdapterInit /\ [][AdapterNext]_vars

-----------------------------------------------------------------------------
(* Properties *)

\* the elements of a sequence
Elems(q) == {q[i] : i \in DOMAIN q}

\* how often x occurs in q
Count(q, x) == Cardinality({i \in DOMAIN q : q[i] = x})

\* the address strings print_domains is called with, one per target
TargetIPs == [i \in DOMAIN targets |->
                 IF mode = "file" THEN Strip(targets[i]) ELSE targets[i]]

RECURSIVE ValidOnly(_)
ValidOnly(q) ==
    IF q = <<>> THEN <<>>
    ELSE (IF IsValidIP(Head(q)) THEN <<Head(q)>> ELSE <<>>) \o ValidOnly(Tail(q))

\* the provider answered with an error: a status other than 200, the quota
\* marker (hackertarget), a responseCode other than 200 (mnemonic)
ProviderError(src, r) ==
    IF src = "hackertarget"
    THEN r.status # 200 \/ Contains(r.text, QuotaMarker)
    ELSE r.status # 200 \/ r.responseCode # 200

ProviderErrors == {ErrHttp, ErrQuota}

\* C1: in the --subnet and --file modes an invalid target is reported and
\* skipped: a run that ends without a provider failure has looked up every
\* valid target of the enumeration, in order.
C1_InvalidTargetSkipped ==
    (/\ pc = "exit"
     /\ mode \in {"subnet", "file"}
     /\ targets # <<>>
     /\ traceback = ""
     /\ Elems(errors) \cap ProviderErrors = {})
    => providerCalls = ValidOnly(TargetIPs)

\* C2: a provider error on target k ends the run at once with a non-zero
\* exit status: targets 1..k were looked up exactly once each, nothing was
\* looked up after k, and k was not retried.
C2_ProviderErrorAborts ==
    (providerCalls # <<>> /\ ProviderError(source, resp))
    => /\ pc = "exit"
       /\ exitCode # 0
       /\ Len(providerCalls) = idx
       /\ Len(rdnsCalls) = idx
       /\ \A i \in 1..idx : providerCalls[i] = TargetIPs[i]
                            /\ rdnsCalls[i] = TargetIPs[i]

C2_Witness ==
    /\ pc = "exit"
    /\ exitCode = 1
    /\ idx = 2
    /\ Len(targets) = 3
    /\ Len(providerCalls) = 2
    /\ ProviderError(source, resp)

\* the first and the last address the amended C3 expects for a network
FirstHost(net) ==
    IF net.prefix >= 31 THEN NetworkAddress(net) ELSE NetworkAddress(net) + 1
LastHost(net) ==
    IF net.prefix >= 31 THEN BroadcastAddress(net) ELSE BroadcastAddress(net) - 1

\* C3 as stated: a run on a valid subnet that ends normally has looked up
\* exactly the addresses strictly between the network and the broadcast
\* address, ascending, once each.
C3_HostsExcludeNetworkAndBroadcast ==
    (mode = "subnet" /\ input.ok /\ pc = "exit" /\ exitCode = 0)
    => /\ Len(providerCalls) = BroadcastAddress(input) - NetworkAddress(input) - 1
       /\ \A i \in DOMAIN providerCalls :
              providerCalls[i] = HostStr(NetworkAddress(input) + i)

\* C3 amended: for an IPv4 subnet the targets looked up are, once each and
\* ascending, the addresses strictly between network and broadcast address
\* when the prefix length is at most 30, both addresses of a /31 and the one
\* address of a /32; all of them when the run ends normally.
C3_SubnetHosts ==
    (mode = "subnet" /\ input.ok)
    => /\ Len(providerCalls) <= LastHost(input) - FirstHost(input) + 1
       /\ \A i \in DOMAIN providerCalls :
              providerCalls[i] = HostStr(FirstHost(input) + i - 1)
       /\ (pc = "exit" /\ exitCode = 0)
              => Len(providerCalls) = LastHost(input) - FirstHost(input) + 1
       /\ (input.prefix <= 30 /\ providerCalls # <<>>)
              => /\ HostStr(NetworkAddress(input)) \notin Elems(providerCalls)
                 /\ HostStr(BroadcastAddress(input)) \notin Elems(providerCalls)

C3_Witness ==
    /\ mode = "subnet"
    /\ input.ok
    /\ input.prefix = 30
    /\ pc = "exit"
    /\ exitCode = 0
    /\ providerCalls = <<"192.0.2.1", "192.0.2.2">>

\* C4: an invalid CIDR string ends the run with no target processed, an
\* error message printed and a non-zero exit status.
C4_InvalidSubnetIsReported ==
    (mode = "subnet" /\ ~input.ok /\ pc = "exit" /\ ua # "")
    => /\ rdnsCalls = <<>>
       /\ providerCalls = <<>>
       /\ file = file0
       /\ exitCode # 0
       /\ errors # <<>>

\* C5: what an adapter returns holds no entry twice and no empty string.
C5_NoDuplicateNoEmpty ==
    pc = "returned"
    => /\ \A i, j \in DOMAIN fqdns : fqdns[i] = fqdns[j] => i = j
       /\ \A i \in DOMAIN fqdns : fqdns[i] # <<>>

IsBreak(c) == c \in {"\n", "\r"}
NotBreak(c) == ~IsBreak(c)

\* the characters of the lines, one line after the other
RECURSIVE Flatten(_)
Flatten(q) == IF q = <<>> THEN <<>> ELSE Head(q) \o Flatten(Tail(q))

\* how many lines a text has: one per line break ("\r\n" being one) and one
\* for what follows the last break
LineCount(s) ==
    Cardinality({k \in DOMAIN s :
                    IsBreak(s[k]) /\ ~(s[k] = "\n" /\ k > 1 /\ s[k - 1] = "\r")})
    + (IF s # <<>> /\ NotBreak(s[Len(s)]) THEN 1 ELSE 0)

ThreeHosts == DomA \o <<"\n">> \o DomC \o <<"\n">> \o DomB

\* C6: hackertarget classifies a response as exactly one of: HTTP status
\* error (status other than 200), else quota error (quota marker), else
\* empty result without error (no-records marker), else the lines of the
\* body.
C6_HackertargetOutcomes ==
    (source = "hackertarget" /\ pc # "call")
    => IF resp.status # 200
       THEN pc = "exit" /\ exitCode = 1 /\ errors = <<ErrHttp>> /\ results = <<>>
       ELSE IF Contains(resp.text, QuotaMarker)
       THEN pc = "exit" /\ exitCode = 1 /\ errors = <<ErrQuota>> /\ results = <<>>
       ELSE IF Contains(resp.text, NoRecordsMarker)
       THEN pc = "returned" /\ errors = <<>> /\ fqdns = <<>>
       ELSE /\ pc = "returned"
            /\ errors = <<>>
            /\ \A i \in DOMAIN fqdns : \A k \in DOMAIN fqdns[i] : NotBreak(fqdns[i][k])
            /\ Flatten(fqdns) = SelectSeq(resp.text, NotBreak)
            /\ Len(fqdns) = LineCount(resp.text)
            /\ resp.text = ThreeHosts => fqdns = <<DomA, DomC, DomB>>

C6_Witness ==
    /\ source = "hackertarget"
    /\ pc = "returned"
    /\ resp.status = 200
    /\ resp.text = ThreeHosts
    /\ fqdns = <<DomA, DomC, DomB>>

\* the age the claim gives a record: now minus the first 10 digits of its
\* lastSeenTimestamp
Age(rec) ==
    LET d == rec.lastSeenTimestamp
    IN Now - ToInt(IF Len(d) > 10 THEN SubSeq(d, 1, 10) ELSE d)

RECURSIVE YoungerThanAYear(_)
YoungerThanAYear(data) ==
    IF data = <<>> THEN <<>>
    ELSE (IF Age(Head(data)) < 31536000 THEN <<Head(data).query>> ELSE <<>>)
         \o YoungerThanAYear(Tail(data))

\* C7: with HTTP status and responseCode both 200, mnemonic returns exactly
\* the query domains of the records younger than 31,536,000 seconds, in the
\* order of the data array, and no error.
C7_MnemonicFreshness ==
    (/\ source = "mnemonic"
     /\ pc # "call"
     /\ resp.json
     /\ resp.status = 200
     /\ resp.responseCode = 200)
    => /\ pc = "returned"
       /\ errors = <<>>
       /\ traceback = ""
       /\ fqdns = YoungerThanAYear(resp.data)

C7_Witness ==
    /\ source = "mnemonic"
    /\ pc = "returned"
    /\ Len(resp.data) = 2
    /\ Age(resp.data[1]) = 31536000
    /\ Age(resp.data[2]) = 31535999
    /\ fqdns = <<resp.data[2].query>>

NonEmptyResults == {k \in DOMAIN results : results[k] # <<>>}

Presented == IF pc \in {"present", "write"} THEN Len(results) - 1 ELSE Len(results)

\* where the lines of result k start in the output file
RECURSIVE Offset(_)
Offset(k) == IF k = 1 THEN Len(file0) ELSE Offset(k - 1) + Len(results[k - 1])

Segment(k) == SubSeq(file, Offset(k) + 1, Offset(k) + Len(results[k]))

Ascending(q) == \A i, j \in DOMAIN q : i < j => ~StrLess(q[j], q[i])

C9_UserAgentNeverFails ==
    pc # "start"
    => /\ ~rua => ua = DefaultUA
       /\ (rua /\ uaFile = "ok") => ua \in Elems(UaLines)
       /\ (rua /\ uaFile \in {"missing", "denied"}) => ua = DefaultUA

=============================================================================
